---- MODULE Spec2Model ----
(***************************************************************************)
(* intelligent-fixer.py: a driver that walks the static table file_fixes   *)
(* and calls fix_file(filepath, fixes) on every entry.  fix_file reads the *)
(* file, applies re.sub for every (pattern, replacement) pair in order,    *)
(* and writes the file back when the text changed.                         *)
(*                                                                         *)
(* Text is a sequence of lexemes.  Each lexeme stands for a run of         *)
(* characters of the source text that the patterns of the table either     *)
(* match as a whole or not at all, so matching a pattern against a lexeme  *)
(* sequence is matching it against the characters.                         *)
(***************************************************************************)
EXTENDS Integers, Sequences, FiniteSets, TLC

VARIABLES
    file_fixes, \* the table the driver iterates: a sequence of [path, fixes]
    disk,       \* the file system: path -> [kind, perm, data]
    free,       \* free space of the file system in lexemes, Unlimited if no limit
    run,        \* number of the current invocation of the script
    pc,         \* position of the script
    idx,        \* index of the current entry of file_fixes.items()
    k,          \* fix_file: index of the next (pattern, replacement) pair
    content,    \* fix_file: local `content`
    original,   \* fix_file: local `original`
    exc,        \* fix_file: the exception in flight ("" if none)
    result,     \* fix_file: the value returned to the driver
    out,        \* standard output of the current invocation
    calls,      \* history: the filepaths fix_file was called with, this invocation
    rets,       \* history: [ret, err] of every finished call, this invocation
    opens,      \* history: <<path, mode>> of every open() that succeeded, this invocation
    pre,        \* history: disk[filepath] when the current call began
    start       \* history: the disk at the start of every invocation

vars == <<file_fixes, disk, free, run, pc, idx, k, content, original, exc,
          result, out, calls, rets, opens, pre, start>>

----------------------------------------------------------------------------
(* Bounds of the model. *)

\* the driver is modelled on the first NumFiles entries of the table
NumFiles == 3
\* the script is invoked Runs times in succession
Runs == 2
\* the file system starts with 0..MaxFree free lexemes, or without a limit
MaxFree == 1
\* longest file content of the generic inputs
MaxLen == 3
\* most lexemes in the patterns and replacements of a generic rule list
MaxRuleTokens == 4

Unlimited == 0 - 1

----------------------------------------------------------------------------
(* Regular expressions.  A pattern is a sequence of atoms; an atom matches *)
(* one lexeme of a class, or (star) the longest run of lexemes of the      *)
(* class that lets the rest of the pattern match, as the backtracking      *)
(* matcher behind re.sub does.  ^ and $ occur in no pattern of the table,  *)
(* so flags=re.MULTILINE changes nothing.                                  *)

Lit(t) == [cls |-> {t}, star |-> FALSE]
Star(C) == [cls |-> C, star |-> TRUE]

RECURSIVE Lits(_)
Lits(s) == IF s = <<>> THEN <<>> ELSE <<Lit(Head(s))>> \o Lits(Tail(s))

\* the lexemes \s matches
Whitespace == {"\n", " ", "                  "}

\* the longest run of lexemes of class C in text from position i
RECURSIVE RunLen(_, _, _)
RunLen(C, text, i) ==
    IF i <= Len(text) /\ text[i] \in C THEN 1 + RunLen(C, text, i + 1) ELSE 0

\* the position after the match of pat[j..] at position i of text, 0 if none
RECURSIVE MatchAt(_, _, _, _)
RECURSIVE StarTry(_, _, _, _, _)
MatchAt(pat, j, text, i) ==
    IF j > Len(pat) THEN i
    ELSE IF pat[j].star
         THEN StarTry(pat, j, text, i, RunLen(pat[j].cls, text, i))
         ELSE IF i <= Len(text) /\ text[i] \in pat[j].cls
              THEN MatchAt(pat, j + 1, text, i + 1)
              ELSE 0
StarTry(pat, j, text, i, n) ==
    LET r == MatchAt(pat, j + 1, text, i + n)
    IN IF r # 0 THEN r
       ELSE IF n = 0 THEN 0 ELSE StarTry(pat, j, text, i, n - 1)

\* count = 1: only the leftmost match is replaced
RECURSIVE SubFirst(_, _, _, _)
SubFirst(pat, repl, text, pos) ==
    IF pos > Len(text) THEN <<>>
    ELSE LET e == MatchAt(pat, 1, text, pos)
         IN IF e > pos THEN repl \o SubSeq(text, e, Len(text))
            ELSE <<text[pos]>> \o SubFirst(pat, repl, text, pos + 1)

\* re.sub scanning text from position pos: the leftmost match is replaced
\* and the scan goes on after it; an empty match is replaced and the scan
\* steps over one lexeme
RECURSIVE Scan(_, _, _, _)
Scan(pat, repl, text, pos) ==
    IF pos > Len(text)
    THEN IF MatchAt(pat, 1, text, pos) = pos THEN repl ELSE <<>>
    ELSE LET e == MatchAt(pat, 1, text, pos)
         IN IF e > pos THEN repl \o Scan(pat, repl, text, e)
            ELSE IF e = pos THEN repl \o <<text[pos]>> \o Scan(pat, repl, text, pos + 1)
            ELSE <<text[pos]>> \o Scan(pat, repl, text, pos + 1)

re_sub_first(pattern, replacement, text) == SubFirst(pattern, replacement, text, 1)

re_sub(pattern, replacement, text) == Scan(pattern, replacement, text, 1)

----------------------------------------------------------------------------
(* The table file_fixes = { filepath: [(pattern, replacement), ...] }, in  *)
(* insertion order.                                                        *)

Rule(p, r) == [pattern |-> p, replacement |-> r]
Entry(path, fixes) == [path |-> path, fixes |-> fixes]

Optional(obj, member) ==
    Rule(Lits(<<obj, ".", member>>), <<obj, "?", ".", member>>)
OptionalOr0(obj, member) ==
    Rule(Lits(<<obj, ".", member>>), <<obj, "?", ".", member, " ?? 0">>)

CurrentIDLine == "const currentID = featuredIDs[currentIndex];"
CurrentIDGuard == "\n\n  if (!currentID) return null;"

FileFixesLiteral == <<
    Entry("components/featured-verusids-carousel.tsx", <<
        Rule(Lits(<<CurrentIDLine>>), <<CurrentIDLine, CurrentIDGuard>>) >>),
    Entry("components/charts/heatmap-calendar.tsx", <<
        Rule(Lits(<<"toLocaleDateString('en-US'">>),
             <<"toLocaleDateString('en-US'", " as string">>),
        Rule(Lits(<<"const formattedDate = date", ";">>),
             <<"const formattedDate = date", " || 'Unknown'", ";">>) >>),
    Entry("components/interactive-charts.tsx", <<
        Optional("miningStats", "difficulty"),
        Optional("miningStats", "networkHashrate"),
        Optional("stakingStats", "apy") >>),
    Entry("components/moving-price-ticker.tsx", <<
        Rule(Lits(<<"useEffect(() => {">>),
             <<"useEffect(() => {", "\n      if (!currentPrice) return;">>),
        OptionalOr0("currentPrice", "price") >>),
    Entry("components/pull-to-refresh.tsx", <<
        OptionalOr0("containerRef.current", "scrollTop") >>),
    Entry("components/quick-stats-ticker.tsx", <<
        Optional("networkStats", "connections"),
        Optional("stakingStats", "networkWeight") >>),
    Entry("components/ui/breadcrumb.tsx", <<
        Optional("firstItem", "label"),
        Optional("firstItem", "href") >>),
    Entry("components/i18n-error-boundary.tsx", <<
        Rule(Lits(<<"override ", "componentDidCatch">>), <<"componentDidCatch">>) >>),
    Entry("components/blocks-explorer.tsx", <<
        Rule(<<Lit("calculateTemporalMetrics("), Star(Whitespace), Lit("block"), Lit(",")>>,
             <<"calculateTemporalMetrics(", "\n", "                  ", "block", "!", ",">>) >>),
    Entry("lib/cache/cache-utils.ts", <<
        Rule(Lits(<<"result", "?", ".", "value", ".", "headers">>),
             <<"result", "?", ".", "value", "?", ".", "headers">>) >>),
    Entry("lib/database/secure-db-client.ts", <<
        Rule(Lits(<<"this.pool", ".", "query">>), <<"this.pool", "!", ".", "query">>) >>),
    Entry("lib/hooks/use-touch-gestures.ts", <<
        OptionalOr0("event.touches[0]", "clientX"),
        OptionalOr0("event.touches[0]", "clientY") >>),
    Entry("lib/i18n/utils.ts", <<
        Rule(Lits(<<"code", ".", "split('-')[0]">>),
             <<"code", "?", ".", "split('-')[0]", " || ", "code", " || 'en'">>),
        Rule(Lits(<<"for (const { code } of languages)">>),
             <<"for (const { code } of languages)", " {\n    if (!code) continue;">>) >>)
>>

----------------------------------------------------------------------------
(* The file system. *)

Missing == [kind |-> "missing", perm |-> "rw", data |-> <<>>]
Binary == [kind |-> "binary", perm |-> "rw", data |-> <<>>]
TextFile(s, perm) == [kind |-> "text", perm |-> perm, data |-> s]

\* a file of the working directory that is no key of the table
OtherPath == "README.md"
Other == "/* other */"

\* the exception open(filepath, 'r') / f.read() raises on file f, "" if none
ReadError(f) ==
    IF f.kind = "missing" THEN "FileNotFoundError"
    ELSE IF f.perm = "--" THEN "PermissionError"
    ELSE IF f.kind = "binary" THEN "UnicodeDecodeError"
    ELSE ""

\* open(filepath, 'r') returns a file object (f.read() may still fail)
OpensForRead(f) == f.kind # "missing" /\ f.perm # "--"

\* classes derived from Exception, among the exceptions of the model
ExceptionClasses ==
    {"FileNotFoundError", "PermissionError", "UnicodeDecodeError", "OSError"}

CatchesOSError(e) == e \in {"FileNotFoundError", "PermissionError", "OSError"}

\* except Exception as e
Catches(e) == e \in ExceptionClasses

ChangedAlways(new, old) == TRUE

\* if content != original
Changed(new, old) == new # old

WritePathOther(filepath) == OtherPath

\* the path of open(filepath, 'w')
WritePath(filepath) == filepath

PrintsFixedAlways(r) == TRUE

\* if fix_file(filepath, fixes): print("Fixed ...")
PrintsFixed(r) == r

HasNextSkipLast(i, table) == i < Len(table) - 1

\* for filepath, fixes in file_fixes.items(): another entry is left
HasNext(i, table) == i < Len(table)

Line(kind, path, cause) == <<kind, path, cause>>

----------------------------------------------------------------------------
(* Initial states. *)

\* a text the pattern matches: every atom once
RECURSIVE Instance(_)
Instance(pat) ==
    IF pat = <<>> THEN <<>>
    ELSE <<CHOOSE t \in Head(pat).cls : TRUE>> \o Instance(Tail(pat))

\* a text every pattern of the rule list matches
RECURSIVE AllInstances(_)
AllInstances(fixes) ==
    IF fixes = <<>> THEN <<Other>>
    ELSE <<Other>> \o Instance(Head(fixes).pattern) \o AllInstances(Tail(fixes))

Samples(fixes) == {<<Other>>, AllInstances(fixes)}

FileStates(fixes) ==
    {Missing, Binary, TextFile(AllInstances(fixes), "--"),
     TextFile(AllInstances(fixes), "r-")}
    \cup {TextFile(s, "rw") : s \in Samples(fixes)}

RECURSIVE Disks(_)
Disks(table) ==
    IF table = <<>>
    THEN {(OtherPath :> TextFile(<<Other>>, "rw"))}
    ELSE {(Head(table).path :> f) @@ d :
              f \in FileStates(Head(table).fixes), d \in Disks(Tail(table))}

\* generic inputs: one file of lexemes a, b and every rule list of literal
\* patterns whose patterns and replacements hold at most MaxRuleTokens lexemes
GenPath == "generic.txt"
Alphabet == {"a", "b"}

Texts(n) == UNION {[1 .. m -> Alphabet] : m \in 0 .. n}

GenRules(b) ==
    {Rule(Lits(p), r) : <<p, r>> \in
        {pr \in Texts(b) \X Texts(b) : pr[1] # <<>> /\ Len(pr[1]) + Len(pr[2]) <= b}}

RuleSize(r) == Len(r.pattern) + Len(r.replacement)

RECURSIVE RuleLists(_)
RuleLists(b) ==
    {<<>>} \cup UNION {{<<r>> \o l : l \in RuleLists(b - RuleSize(r))} : r \in GenRules(b)}

GenEnvs ==
    {[file |-> TextFile(s, "rw"), free |-> Unlimited] : s \in Texts(MaxLen)}
    \cup {[file |-> f, free |-> Unlimited] :
             f \in {Missing, Binary, TextFile(<<"a", "b">>, "r-")}}
    \cup {[file |-> TextFile(<<"a", "b">>, "rw"), free |-> 0]}

InitRest ==
    /\ run = 1
    /\ pc = "start"
    /\ idx = 0
    /\ k = 1
    /\ content = <<>>
    /\ original = <<>>
    /\ exc = ""
    /\ result = FALSE
    /\ out = <<>>
    /\ calls = <<>>
    /\ rets = <<>>
    /\ opens = <<>>
    /\ pre = Missing
    /\ start = <<disk>>

Init ==
    /\ file_fixes = SubSeq(FileFixesLiteral, 1, NumFiles)
    /\ disk \in Disks(file_fixes)
    /\ free \in (0 .. MaxFree) \cup {Unlimited}
    /\ InitRest

InitRules ==
    /\ file_fixes \in {<<Entry(GenPath, l)>> : l \in RuleLists(MaxRuleTokens)}
    /\ \E env \in GenEnvs :
          /\ disk = (GenPath :> env.file) @@ (OtherPath :> TextFile(<<Other>>, "rw"))
          /\ free = env.free
    /\ InitRest

----------------------------------------------------------------------------
(* The script. *)

filepath == file_fixes[idx].path
fixes == file_fixes[idx].fixes

\* print("Applying intelligent fixes...")
Start ==
    /\ pc = "start"
    /\ out' = Append(out, Line("applying", "", ""))
    /\ pc' = "loop"
    /\ UNCHANGED <<file_fixes, disk, free, run, idx, k, content, original, exc,
                   result, calls, rets, opens, pre, start>>

\* the for loop takes the next entry and calls fix_file(filepath, fixes)
LoopNext ==
    /\ pc = "loop"
    /\ HasNext(idx, file_fixes)
    /\ idx' = idx + 1
    /\ calls' = Append(calls, file_fixes[idx + 1].path)
    /\ pre' = disk[file_fixes[idx + 1].path]
    /\ k' = 1
    /\ content' = <<>>
    /\ original' = <<>>
    /\ exc' = ""
    /\ result' = FALSE
    /\ pc' = "read"
    /\ UNCHANGED <<file_fixes, disk, free, run, out, rets, opens, start>>

\* the for loop is exhausted
LoopEnd ==
    /\ pc = "loop"
    /\ ~HasNext(idx, file_fixes)
    /\ pc' = "done"
    /\ UNCHANGED <<file_fixes, disk, free, run, idx, k, content, original, exc,
                   result, out, calls, rets, opens, pre, start>>

\* with open(filepath, 'r', encoding='utf-8') as f: content = f.read()
\* original = content
ReadOk ==
    /\ pc = "read"
    /\ ReadError(disk[filepath]) = ""
    /\ content' = disk[filepath].data
    /\ original' = disk[filepath].data
    /\ opens' = Append(opens, <<filepath, "r">>)
    /\ pc' = "sub"
    /\ UNCHANGED <<file_fixes, disk, free, run, idx, k, exc, result, out, calls,
                   rets, pre, start>>

ReadFail ==
    /\ pc = "read"
    /\ ReadError(disk[filepath]) # ""
    /\ exc' = ReadError(disk[filepath])
    /\ opens' = IF OpensForRead(disk[filepath])
                THEN Append(opens, <<filepath, "r">>) ELSE opens
    /\ pc' = "except"
    /\ UNCHANGED <<file_fixes, disk, free, run, idx, k, content, original,
                   result, out, calls, rets, pre, start>>

\* content = re.sub(pattern, replacement, content, flags=re.MULTILINE)
Sub ==
    /\ pc = "sub"
    /\ k <= Len(fixes)
    /\ content' = re_sub(fixes[k].pattern, fixes[k].replacement, content)
    /\ k' = k + 1
    /\ UNCHANGED <<file_fixes, disk, free, run, pc, idx, original, exc, result,
                   out, calls, rets, opens, pre, start>>

\* if content != original: ... else fall through to return False
Compare ==
    /\ pc = "sub"
    /\ k > Len(fixes)
    /\ IF Changed(content, original)
       THEN pc' = "open_w" /\ UNCHANGED result
       ELSE pc' = "ret" /\ result' = FALSE
    /\ UNCHANGED <<file_fixes, disk, free, run, idx, k, content, original, exc,
                   out, calls, rets, opens, pre, start>>

\* open(filepath, 'w', encoding='utf-8') truncates the file
OpenWriteOk ==
    /\ pc = "open_w"
    /\ LET p == WritePath(filepath)
       IN /\ disk[p].perm = "rw"
          /\ disk' = [disk EXCEPT ![p] = TextFile(<<>>, "rw")]
          /\ free' = IF free = Unlimited THEN free ELSE free + Len(disk[p].data)
          /\ opens' = Append(opens, <<p, "w">>)
    /\ pc' = "write"
    /\ UNCHANGED <<file_fixes, run, idx, k, content, original, exc, result, out,
                   calls, rets, pre, start>>

OpenWriteFail ==
    /\ pc = "open_w"
    /\ disk[WritePath(filepath)].perm # "rw"
    /\ exc' = "PermissionError"
    /\ pc' = "except"
    /\ UNCHANGED <<file_fixes, disk, free, run, idx, k, content, original,
                   result, out, calls, rets, opens, pre, start>>

\* f.write(content), flushed when the with block closes the file; return True
WriteOk ==
    /\ pc = "write"
    /\ free = Unlimited \/ Len(content) <= free
    /\ disk' = [disk EXCEPT ![WritePath(filepath)].data = content]
    /\ free' = IF free = Unlimited THEN free ELSE free - Len(content)
    /\ result' = TRUE
    /\ pc' = "ret"
    /\ UNCHANGED <<file_fixes, run, idx, k, content, original, exc, out, calls,
                   rets, opens, pre, start>>

\* the file system is full: the lexemes that fit are written, OSError
WriteFail ==
    /\ pc = "write"
    /\ free # Unlimited /\ Len(content) > free
    /\ disk' = [disk EXCEPT ![WritePath(filepath)].data = SubSeq(content, 1, free)]
    /\ free' = 0
    /\ exc' = "OSError"
    /\ pc' = "except"
    /\ UNCHANGED <<file_fixes, run, idx, k, content, original, result, out,
                   calls, rets, opens, pre, start>>

\* except Exception as e: print(f"Error fixing {filepath}: {e}"); return False
\* an exception the clause does not catch leaves fix_file and ends the script
Except ==
    /\ pc = "except"
    /\ IF Catches(exc)
       THEN /\ out' = Append(out, Line("error", filepath, exc))
            /\ result' = FALSE
            /\ pc' = "ret"
       ELSE /\ pc' = "raised"
            /\ UNCHANGED <<out, result>>
    /\ UNCHANGED <<file_fixes, disk, free, run, idx, k, content, original, exc,
                   calls, rets, opens, pre, start>>

\* back in the driver: if fix_file(filepath, fixes): print(f"Fixed {filepath}")
Return ==
    /\ pc = "ret"
    /\ rets' = Append(rets, [ret |-> result, err |-> exc])
    /\ out' = IF PrintsFixed(result)
              THEN Append(out, Line("fixed", filepath, "")) ELSE out
    /\ pc' = "loop"
    /\ UNCHANGED <<file_fixes, disk, free, run, idx, k, content, original, exc,
                   result, calls, opens, pre, start>>

\* print("\nDone!") and the process exits
Done ==
    /\ pc = "done"
    /\ out' = Append(out, Line("done", "", ""))
    /\ pc' = "exit"
    /\ UNCHANGED <<file_fixes, disk, free, run, idx, k, content, original, exc,
                   result, calls, rets, opens, pre, start>>

\* the script is invoked again on the files the last invocation left
Rerun ==
    /\ pc = "exit"
    /\ run < Runs
    /\ run' = run + 1
    /\ start' = Append(start, disk)
    /\ pc' = "start"
    /\ idx' = 0
    /\ k' = 1
    /\ content' = <<>>
    /\ original' = <<>>
    /\ exc' = ""
    /\ result' = FALSE
    /\ out' = <<>>
    /\ calls' = <<>>
    /\ rets' = <<>>
    /\ opens' = <<>>
    /\ pre' = Missing
    /\ UNCHANGED <<file_fixes, disk, free>>

Next ==
    \/ Start
    \/ LoopNext
    \/ LoopEnd
    \/ ReadOk
    \/ ReadFail
    \/ Sub
    \/ Compare
    \/ OpenWriteOk
    \/ OpenWriteFail
    \/ WriteOk
    \/ WriteFail
    \/ Except
    \/ Return
    \/ Done
    \/ Rerun

Spec == Init /\ [][Next]_vars

\* fix_file on every rule list and every content
SpecRules == InitRules /\ [][Next]_vars

\* the interpreter runs the script to its end: a step that can be taken is taken
FairSpec == Spec /\ WF_vars(Next)

----------------------------------------------------------------------------
(* Vocabulary of the properties. *)

Range(seq) == {seq[i] : i \in 1 .. Len(seq)}

TablePaths == {file_fixes[i].path : i \in 1 .. Len(file_fixes)}

\* the pattern matches somewhere in the text
HasMatch(pat, text) == \E i \in 1 .. Len(text) + 1 : MatchAt(pat, 1, text, i) # 0

NoPatternMatches(fs, text) == \A j \in 1 .. Len(fs) : ~HasMatch(fs[j].pattern, text)

Readable(f) == ReadError(f) = ""

\* the start of the leftmost non-empty match of the pattern, 0 if none
FirstMatch(pat, text) ==
    IF \E i \in 1 .. Len(text) : MatchAt(pat, 1, text, i) > i
    THEN CHOOSE i \in 1 .. Len(text) :
             /\ MatchAt(pat, 1, text, i) > i
             /\ \A h \in 1 .. i - 1 : ~(MatchAt(pat, 1, text, h) > h)
    ELSE 0

\* every non-overlapping match replaced: the text before the leftmost match,
\* the replacement, and the rest of the text treated the same way
RECURSIVE ReplaceAll(_, _, _)
ReplaceAll(pat, repl, text) ==
    LET i == FirstMatch(pat, text)
    IN IF i = 0 THEN text
       ELSE SubSeq(text, 1, i - 1) \o repl
            \o ReplaceAll(pat, repl, SubSeq(text, MatchAt(pat, 1, text, i), Len(text)))

\* the first n rules applied in order, each to the output of the one before
RECURSIVE Compose(_, _, _)
Compose(fs, n, text) ==
    IF n = 0 THEN text
    ELSE ReplaceAll(fs[n].pattern, fs[n].replacement, Compose(fs, n - 1, text))

WriteOpens(p) == {i \in 1 .. Len(opens) : opens[i] = <<p, "w">>}

Unchanged(r) == ~r.ret /\ r.err = ""

\* the status lines of the finished calls: none for an unchanged file
RECURSIVE StatusLines(_)
StatusLines(n) ==
    IF n = 0 THEN <<>>
    ELSE StatusLines(n - 1) \o
         (IF rets[n].err # "" THEN <<Line("error", file_fixes[n].path, rets[n].err)>>
          ELSE IF rets[n].ret THEN <<Line("fixed", file_fixes[n].path, "")>>
          ELSE <<>>)

\* the position in the table of the file of every open() never decreases
OpensInTableOrder ==
    \A i \in 1 .. Len(opens) :
        /\ \E n \in 1 .. Len(calls) : calls[n] = opens[i][1]
        /\ \A j \in i + 1 .. Len(opens) :
               \A m, n \in 1 .. Len(calls) :
                   (calls[m] = opens[i][1] /\ calls[n] = opens[j][1]) => m <= n

----------------------------------------------------------------------------
(* C1: in one run every file is opened for writing at most once, a write   *)
(* happens only when the buffer left by all the rules of the file differs  *)
(* from the content read at the start of the call, and a file no pattern   *)
(* matches is not written and fix_file returns False.                      *)
C1_WriteOnceOnlyIfChanged ==
    /\ \A p \in DOMAIN disk : Cardinality(WriteOpens(p)) <= 1
    /\ pc = "write" =>
          /\ content # original
          /\ original = pre.data
          /\ k = Len(fixes) + 1
          /\ opens[Len(opens)] = <<filepath, "w">>
    /\ (pc = "ret" /\ Readable(pre) /\ NoPatternMatches(fixes, pre.data)) =>
          /\ result = FALSE
          /\ disk[filepath] = pre
          /\ WriteOpens(filepath) = {}

C1_Witness ==
    /\ pc = "ret"
    /\ Readable(pre) /\ NoPatternMatches(fixes, pre.data)
    /\ \E i \in 1 .. Len(opens) : opens[i][2] = "w"

(* C2: a call of fix_file that returns False, error outcomes included,     *)
(* leaves the file as it was when the call began.                          *)
C2_FalseLeavesFileUntouched ==
    (pc = "ret" /\ ~result) => disk[filepath] = pre

(* C3: fix_file never raises to the driver: a failure to open, decode or   *)
(* write back ends in an error line naming the path and the cause, and in  *)
(* the return value False.                                                 *)
C3_ErrorsCaught ==
    /\ pc # "raised"
    /\ (pc = "ret" /\ ~Readable(pre)) => exc = ReadError(pre)
    /\ (pc = "ret" /\ exc # "") =>
          /\ result = FALSE
          /\ out[Len(out)] = Line("error", filepath, exc)

C3_Witness ==
    /\ pc = "ret"
    /\ exc = "OSError"
    /\ \E i \in 1 .. Len(rets) : rets[i].err = "UnicodeDecodeError"

(* C4: fix_file is called exactly once for every entry, in table order,    *)
(* one call finishing before the next begins, whatever the outcomes; and   *)
(* every run reaches the completion line.                                  *)
C4_Sequential ==
    /\ Len(calls) = idx
    /\ \A i \in 1 .. Len(calls) : calls[i] = file_fixes[i].path
    /\ Len(rets) = (IF pc \in {"start", "loop", "done", "exit"} THEN idx ELSE idx - 1)
    /\ OpensInTableOrder
    /\ pc = "exit" =>
          /\ idx = Len(file_fixes)
          /\ out[Len(out)] = Line("done", "", "")

C4_DriverNeverAborts ==
    /\ []C4_Sequential
    /\ [](pc = "start" => <>(pc = "exit"))

C4_Witness ==
    /\ pc = "exit"
    /\ Len(rets) = Len(file_fixes)
    /\ rets[1].err # ""
    /\ \E i \in 2 .. Len(rets) : rets[i].ret

(* C5: with no rule whose replacement is matched by its own pattern, the   *)
(* second run of the driver writes no file.                                *)
NoRuleRematchesItself ==
    \A i \in 1 .. Len(file_fixes) : \A j \in 1 .. Len(file_fixes[i].fixes) :
        ~HasMatch(file_fixes[i].fixes[j].pattern, file_fixes[i].fixes[j].replacement)

NoFaults ==
    /\ free = Unlimited
    /\ \A p \in TablePaths : Readable(start[1][p]) /\ start[1][p].perm = "rw"

C5_SecondRunWritesNothing ==
    (pc = "exit" /\ run = 2 /\ NoFaults /\ NoRuleRematchesItself) =>
        \A i \in 1 .. Len(rets) : ~rets[i].ret

(* C5 as amended: a later run writes no file whose content, as the run     *)
(* before left it, is matched by none of the patterns of the file.         *)
C5_LaterRunWritesNothingIfNoMatch ==
    (pc = "exit" /\ run >= 2) =>
        \A i \in 1 .. Len(rets) :
            LET f == start[run][file_fixes[i].path]
            IN (Readable(f) => NoPatternMatches(file_fixes[i].fixes, f.data)) =>
                   /\ ~rets[i].ret
                   /\ disk[file_fixes[i].path] = f

C5_Witness ==
    /\ pc = "exit" /\ run = 2
    /\ start[2][file_fixes[1].path] # start[1][file_fixes[1].path]
    /\ Readable(start[2][file_fixes[1].path])
    /\ NoPatternMatches(file_fixes[1].fixes, start[2][file_fixes[1].path].data)
    /\ ~rets[1].ret

(* C6: on a file holding the line `const currentID = ...;` the first run   *)
(* inserts the guard after the line and the second run leaves the file as  *)
(* the first run left it.                                                  *)
Carousel == "components/featured-verusids-carousel.tsx"

C6_GuardInsertedOnce ==
    (/\ pc = "exit" /\ run = 2
     /\ Carousel \in TablePaths
     /\ free = Unlimited
     /\ start[1][Carousel] = TextFile(<<Other, CurrentIDLine, Other>>, "rw")) =>
        /\ start[2][Carousel].data = <<Other, CurrentIDLine, CurrentIDGuard, Other>>
        /\ disk[Carousel] = start[2][Carousel]
        /\ ~rets[1].ret

(* C7: the buffer fix_file compares and writes is the composition of the   *)
(* rules from left to right, every rule replacing all non-overlapping      *)
(* matches in the output of the rule before it.                            *)
C7_SequentialReplaceAll ==
    /\ pc = "sub" => (original = pre.data /\ content = Compose(fixes, k - 1, original))
    /\ pc \in {"open_w", "write"} => content = Compose(fixes, Len(fixes), pre.data)
    /\ (pc = "ret" /\ result) => disk[filepath].data = Compose(fixes, Len(fixes), pre.data)
    /\ (pc = "ret" /\ exc = "" /\ ~result) => pre.data = Compose(fixes, Len(fixes), pre.data)

C7_Witness ==
    /\ pc = "ret" /\ result
    /\ Len(fixes) = 2
    /\ ~HasMatch(fixes[2].pattern, original)
    /\ HasMatch(fixes[2].pattern, Compose(fixes, 1, original))
    /\ Compose(fixes, 1, original) #
           re_sub_first(fixes[1].pattern, fixes[1].replacement, original)

(* C8: the driver prints exactly one status line (fixed, unchanged or      *)
(* error) for every entry, in table order, and then the completion line.   *)
C8_OneStatusLinePerEntry ==
    pc = "exit" =>
        /\ Len(out) = Len(file_fixes) + 2
        /\ \A i \in 1 .. Len(file_fixes) :
               /\ out[i + 1][1] \in {"fixed", "unchanged", "error"}
               /\ out[i + 1][2] = file_fixes[i].path
        /\ out[Len(out)] = Line("done", "", "")

(* C8 as amended: in table order, an error line for every call that hit an *)
(* error, a fixed line for every call that returned True, no line for an   *)
(* unchanged file; then the completion line.                               *)
C8_StatusLinesButForUnchanged ==
    /\ pc \in {"loop", "done"} =>
          out = <<Line("applying", "", "")>> \o StatusLines(Len(rets))
    /\ pc = "exit" =>
          /\ Len(rets) = Len(file_fixes)
          /\ out = <<Line("applying", "", "")>> \o StatusLines(Len(rets))
                   \o <<Line("done", "", "")>>

C8_Witness ==
    /\ pc = "exit"
    /\ \E i \in 1 .. Len(rets) : Unchanged(rets[i])
    /\ \E i \in 1 .. Len(rets) : rets[i].ret
    /\ \E i \in 1 .. Len(rets) : rets[i].err # ""

(* C9: a run opens no file that is not a key of the table, such a file is  *)
(* after the run what it was before, and the table is not changed.         *)
C9_OnlyTableFilesTouched ==
    /\ \A i \in 1 .. Len(opens) : opens[i][1] \in TablePaths
    /\ \A p \in DOMAIN disk \ TablePaths : disk[p] = start[1][p]
    /\ OtherPath \in DOMAIN disk \ TablePaths
    /\ file_fixes = SubSeq(FileFixesLiteral, 1, NumFiles)

C9_Witness ==
    /\ pc = "exit" /\ run = 2
    /\ disk[OtherPath].kind = "text"
    /\ \E i \in 1 .. Len(opens) : opens[i][2] = "w"
    /\ \E p \in TablePaths : disk[p] # start[1][p]

(* C10: the Fixed line of a file is printed exactly when fix_file returned *)
(* True for it, which it does only after a write without error that left   *)
(* the fully substituted buffer, different from the original, on disk; no  *)
(* file has both an error line and a Fixed line.                           *)
C10_FixedIffReturnedTrue ==
    /\ \A i \in 1 .. Len(rets) :
           Line("fixed", file_fixes[i].path, "") \in Range(out) <=> rets[i].ret
    /\ \A i \in 1 .. Len(out) :
           out[i][1] = "fixed" =>
               \E n \in 1 .. Len(rets) : file_fixes[n].path = out[i][2]
    /\ (pc = "ret" /\ result) =>
          /\ exc = ""
          /\ k = Len(fixes) + 1
          /\ disk[filepath].data = content
          /\ content # original
          /\ original = pre.data
    /\ \A i, j \in 1 .. Len(out) :
           ~(out[i][1] = "error" /\ out[j][1] = "fixed" /\ out[i][2] = out[j][2])

C10_Witness ==
    /\ pc = "exit"
    /\ \E i, j \in 1 .. Len(out) : out[i][1] = "error" /\ out[j][1] = "fixed"

====
